---- MODULE Spec2Model ----
(***************************************************************************)
(* Model of paragraph::Workflow (Workflow.cpp) and of                      *)
(* paragraph::readfilters::BadAlign (BadAlign.hh).                         *)
(*                                                                         *)
(* Workflow: a driver thread (Workflow::run) and a pool of workers that    *)
(* all execute Workflow::processGraphs.  Each worker is a small program    *)
(* counter machine; one action per statement group of the source.          *)
(*                                                                         *)
(* common::unlock_guard, ASYNC_BLOCK_WITH_CLEANUP, common::CPU_THREADS and *)
(* error() live in common/Threads.hh and common/Error.hh, which are not    *)
(* part of the available sources; they are modelled after the design       *)
(* document (spec.md sections 4.3 and 7).                                  *)
(***************************************************************************)
EXTENDS Integers, Sequences, FiniteSets, TLC

\* ------------------------------------------------------------------ bounds
MaxUnits == 3       \* units: read-source groups x graph-specification paths
MaxThreads == 2     \* parameters_.threads()
MaxSegs == 2        \* segments (node alignments) of a decoded graph alignment
MaxSegLen == 3      \* query bases of one segment
MaxCalls == 3          \* alignRead calls on one KlibAligner
MaxScore == 2          \* local-alignment scores 1..MaxScore
MaxAlnPaths == 2       \* paths handed to setGraph
MaxFilters == 5        \* filters composed into one chain
FracDen == 10       \* thresholds are the fractions k / FracDen
MaxFracNum == 12    \* largest numerator k tried (above FracDen: out of range)

VARIABLES
    \* ---- Workflow configuration (fixed by the constructor)
    nGroups,            \* unprocessedInputs_.size()
    nPaths,             \* graphSpecPaths_.size()
    nThreads,           \* parameters_.threads()
    outputFilePath_,    \* TRUE iff outputFilePath_ is non-empty
    outputFolderPath_,  \* TRUE iff outputFolderPath_ is non-empty
    \* ---- Workflow shared state
    unprocessedGraphs_, \* per group: index of the next unclaimed path
    terminate_,
    firstPrinted_,
    mutex_,             \* set of workers that own mutex_
    fos,                \* tokens written to the aggregated stream
    osGood,             \* FALSE once the aggregated stream is in error state
    files,              \* units whose per-unit output file has been written
    drv,                \* position of Workflow::run
    \* ---- per worker (locals of processGraphs)
    pc,
    input,              \* index of the group of the for loop
    graphSpecPath,      \* path claimed at line 183 (0: none)
    output,             \* std::string output: <<>> or <<unit>>
    failure,            \* an exception is unwinding the async block
    \* ---- history (observation only)
    claimLog,           \* per group: the paths claimed, in the order of the claims
    succeeded,          \* units whose expensive stage completed
    failed,             \* units whose async block raised a failure
    abandoned,          \* units claimed and dropped at the terminate_ check
    unguarded,          \* TRUE once shared state was touched without mutex_
    \* ---- BadAlign
    fState,             \* "none" | "constructed" | "assert_failed"
    graph_,             \* TRUE iff graph_ != nullptr
    bad_align_frac_,    \* numerator k of the threshold k / FracDen
    ndebug,             \* TRUE iff assert() is compiled out
    read,               \* the decoded graph alignment of the last read
    result,             \* last return value of filterRead
    \* ---- KlibAligner
    configured,         \* setGraph was called
    attempted_,
    mapped_,
    calls,              \* number of alignRead calls so far (observation)
    fwdCand,            \* candidate of the forward orientation, last call
    revCand,            \* candidate of the reverse complement, last call
    graphAln,           \* graph_* fields of the read: <<>> or <<candidate>>
    \* ---- filter chain
    chain,              \* per filter of the chain: TRUE iff it excludes the read
    fcNext,             \* index of the next filter to apply
    fcInvoked,          \* indices of the filters invoked for the read
    fcTag               \* <<>> | <<"kept">> | <<"excluded", index>>

wfVars == <<nGroups, nPaths, nThreads, outputFilePath_, outputFolderPath_,
            unprocessedGraphs_, terminate_, firstPrinted_, mutex_, fos, osGood,
            files, drv, pc, input, graphSpecPath, output, failure, claimLog,
            succeeded, failed, abandoned, unguarded>>
baVars == <<fState, graph_, bad_align_frac_, ndebug, read, result>>
alVars == <<configured, attempted_, mapped_, calls, fwdCand, revCand, graphAln>>
fcVars == <<chain, fcNext, fcInvoked, fcTag>>
pureVars == <<baVars, alVars, fcVars>>
vars == <<wfVars, baVars, alVars, fcVars>>

\* ------------------------------------------------------------ vocabulary
Groups == 1..MaxUnits
Threads == 1..MaxThreads
Workers == 1..nThreads

OpenTok == <<"[", 0, 0>>
SepTok == <<",", 0, 0>>
CloseTok == <<"]", 0, 0>>
Item(u) == <<"item", u[1], u[2]>>
IsItem(t) == t[1] = "item"

\* graphSpecPaths_.end() seen as an index
End == nPaths + 1

\* the unit a worker is working on
Unit(w) == <<input[w], graphSpecPath[w]>>

\* workers that left processGraphs by an exception
thrown == {w \in Workers : pc[w] = "thrown"}

\* --------------------------------------------- code outside the sources
\* common::unlock_guard: the constructor unlocks the mutex
unlock_guard(w, m) == m \ {w}

\* std::lock_guard / ~unlock_guard: lock() blocks until the mutex is free
CanLock(m) == m = {}

\* ASYNC_BLOCK_WITH_CLEANUP: a failure raised inside the block is absorbed at
\* the end of the block; control continues behind the block
AfterAsyncBlock(fail) == "emit"

\* error(): raises an exception at the place of the call
ErrorThrows == TRUE

\* the failure indication of the invocation: soft-terminate was set
failureIndication == terminate_

\* ------------------------------------------------------------- helpers
\* the cleanup lambda of line 185
CleanupMutAnd(fail) == terminate_ /\ fail
Cleanup(fail) == terminate_ \/ fail

\* condition of lines 258 and 265
Framed == outputFilePath_ /\ 1 < nPaths

\* shared state is being touched by w: remember whether w owns the mutex
Touch(w) == unguarded' = (unguarded \/ w \notin mutex_)

\* what an item write appends to a stream: an empty string appends nothing
Written(out) == IF out = <<>> THEN <<>> ELSE <<Item(out[1])>>

\* --------------------------------------------------------------- Init
WorkflowStart ==
    /\ unprocessedGraphs_ = [g \in Groups |-> 1]
    /\ terminate_ = FALSE
    /\ firstPrinted_ = FALSE
    /\ mutex_ = {}
    /\ fos = <<>>
    /\ osGood = TRUE
    /\ files = {}
    /\ drv = "init"
    /\ pc = [w \in Threads |-> "for"]
    /\ input = [w \in Threads |-> 1]
    /\ graphSpecPath = [w \in Threads |-> 0]
    /\ output = [w \in Threads |-> <<>>]
    /\ failure = [w \in Threads |-> FALSE]
    /\ claimLog = [g \in Groups |-> <<>>]
    /\ succeeded = {}
    /\ failed = {}
    /\ abandoned = {}
    /\ unguarded = FALSE

NoFilter ==
    /\ fState = "none"
    /\ graph_ = FALSE
    /\ bad_align_frac_ = 0
    /\ read = <<>>
    /\ result = <<>>

\* the unmapped candidate
NoCand == [mapped |-> FALSE, score |-> 0, path |-> 0, strand |-> "none"]

\* KlibAligner(): the counters start at 0
NoAligner ==
    /\ configured = FALSE
    /\ attempted_ = 0
    /\ mapped_ = 0
    /\ calls = 0
    /\ fwdCand = NoCand
    /\ revCand = NoCand
    /\ graphAln = <<>>

NoChain ==
    /\ chain = <<>>
    /\ fcNext = 1
    /\ fcInvoked = {}
    /\ fcTag = <<>>

\* Workflow::Workflow, lines 87-114: one cursor per group, at begin()
Init ==
    /\ nGroups \in 0..MaxUnits
    /\ nPaths \in 0..MaxUnits
    /\ nGroups * nPaths <= MaxUnits
    /\ nThreads \in 1..MaxThreads
    /\ outputFilePath_ \in BOOLEAN
    /\ outputFolderPath_ \in BOOLEAN
    /\ WorkflowStart
    /\ NoFilter
    /\ ndebug = FALSE
    /\ NoAligner
    /\ NoChain

cfgVars == <<nGroups, nPaths, nThreads, outputFilePath_, outputFolderPath_>>
histVars == <<claimLog, succeeded, failed, abandoned>>

\* ------------------------------------------------------- Workflow::run
\* lines 230-263: open the sink, write the opening token, start the pool
RunOpen ==
    /\ drv = "init"
    /\ fos' = IF Framed THEN Append(fos, OpenTok) ELSE fos
    /\ drv' = "executing"
    /\ UNCHANGED <<cfgVars, unprocessedGraphs_, terminate_, firstPrinted_,
                   mutex_, osGood, files, pc, input, graphSpecPath, output,
                   failure, histVars, unguarded, pureVars>>

\* lines 263-269: execute() returns when every worker is done; closing token
RunClose ==
    /\ drv = "executing"
    /\ \A w \in Workers : pc[w] \in {"done", "thrown"}
    /\ fos' = IF Framed /\ osGood THEN Append(fos, CloseTok) ELSE fos
    /\ drv' = "returned"
    /\ UNCHANGED <<cfgVars, unprocessedGraphs_, terminate_, firstPrinted_,
                   mutex_, osGood, files, pc, input, graphSpecPath, output,
                   failure, histVars, unguarded, pureVars>>

\* ---------------------------------------------- Workflow::processGraphs
\* line 178: the range-for is exhausted, processGraphs returns
ForEnd(w) ==
    /\ drv = "executing"
    /\ pc[w] = "for"
    /\ input[w] > nGroups
    /\ pc' = [pc EXCEPT ![w] = "done"]
    /\ UNCHANGED <<cfgVars, unprocessedGraphs_, terminate_, firstPrinted_,
                   mutex_, fos, osGood, files, drv, input, graphSpecPath,
                   output, failure, histVars, unguarded, pureVars>>

\* lines 178-180: next group, lock_guard acquires mutex_
LockGuard(w) ==
    /\ drv = "executing"
    /\ pc[w] = "for"
    /\ input[w] <= nGroups
    /\ CanLock(mutex_)
    /\ mutex_' = mutex_ \cup {w}
    /\ pc' = [pc EXCEPT ![w] = "while"]
    /\ UNCHANGED <<cfgVars, unprocessedGraphs_, terminate_, firstPrinted_,
                   fos, osGood, files, drv, input, graphSpecPath, output,
                   failure, histVars, unguarded, pureVars>>

\* line 181 false: the group is exhausted; ~lock_guard at line 227
WhileEnd(w) ==
    /\ pc[w] = "while"
    /\ unprocessedGraphs_[input[w]] = End
    /\ Touch(w)
    /\ mutex_' = mutex_ \ {w}
    /\ input' = [input EXCEPT ![w] = @ + 1]
    /\ pc' = [pc EXCEPT ![w] = "for"]
    /\ UNCHANGED <<cfgVars, unprocessedGraphs_, terminate_, firstPrinted_,
                   fos, osGood, files, drv, graphSpecPath, output, failure,
                   histVars, pureVars>>

\* lines 181-184: claim *(input.unprocessedGraphs_++), output is empty
ClaimMutNoEndTest(w) ==
    /\ pc[w] = "while"
    /\ Touch(w)
    /\ graphSpecPath' = [graphSpecPath EXCEPT ![w] = unprocessedGraphs_[input[w]]]
    /\ unprocessedGraphs_' = [unprocessedGraphs_ EXCEPT ![input[w]] = @ + 1]
    /\ output' = [output EXCEPT ![w] = <<>>]
    /\ claimLog' = [claimLog EXCEPT ![input[w]] =
                        Append(@, unprocessedGraphs_[input[w]])]
    /\ pc' = [pc EXCEPT ![w] = "readers"]
    /\ UNCHANGED <<cfgVars, terminate_, firstPrinted_, mutex_, fos, osGood,
                   files, drv, input, failure, succeeded, failed, abandoned, pureVars>>
ClaimMutPreInc(w) ==
    /\ pc[w] = "while"
    /\ unprocessedGraphs_[input[w]] # End
    /\ Touch(w)
    /\ graphSpecPath' = [graphSpecPath EXCEPT ![w] = unprocessedGraphs_[input[w]] + 1]
    /\ unprocessedGraphs_' = [unprocessedGraphs_ EXCEPT ![input[w]] = @ + 1]
    /\ output' = [output EXCEPT ![w] = <<>>]
    /\ claimLog' = [claimLog EXCEPT ![input[w]] =
                        Append(@, unprocessedGraphs_[input[w]] + 1)]
    /\ pc' = [pc EXCEPT ![w] = "readers"]
    /\ UNCHANGED <<cfgVars, terminate_, firstPrinted_, mutex_, fos, osGood,
                   files, drv, input, failure, succeeded, failed, abandoned, pureVars>>
Claim(w) ==
    /\ pc[w] = "while"
    /\ unprocessedGraphs_[input[w]] # End
    /\ Touch(w)
    /\ graphSpecPath' = [graphSpecPath EXCEPT ![w] = unprocessedGraphs_[input[w]]]
    /\ unprocessedGraphs_' = [unprocessedGraphs_ EXCEPT ![input[w]] = @ + 1]
    /\ output' = [output EXCEPT ![w] = <<>>]
    /\ claimLog' = [claimLog EXCEPT ![input[w]] =
                        Append(@, unprocessedGraphs_[input[w]])]
    /\ pc' = [pc EXCEPT ![w] = "readers"]
    /\ UNCHANGED <<cfgVars, terminate_, firstPrinted_, mutex_, fos, osGood,
                   files, drv, input, failure, succeeded, failed, abandoned, pureVars>>

\* lines 187-197: the BamReaders are opened while mutex_ is owned
OpenReaders(w) ==
    /\ pc[w] = "readers"
    /\ pc' = [pc EXCEPT ![w] = "check"]
    /\ UNCHANGED <<cfgVars, unprocessedGraphs_, terminate_, firstPrinted_,
                   mutex_, fos, osGood, files, drv, input, graphSpecPath,
                   output, failure, histVars, unguarded, pureVars>>

\* line 196 throws: a read source cannot be opened; the block is left
OpenReadersFail(w) ==
    /\ pc[w] = "readers"
    /\ failure' = [failure EXCEPT ![w] = TRUE]
    /\ failed' = failed \cup {Unit(w)}
    /\ pc' = [pc EXCEPT ![w] = "cleanup"]
    /\ UNCHANGED <<cfgVars, unprocessedGraphs_, terminate_, firstPrinted_,
                   mutex_, fos, osGood, files, drv, input, graphSpecPath,
                   output, claimLog, succeeded, abandoned, unguarded, pureVars>>

\* lines 198-202: terminate_ is set: break out of the while loop; the cleanup
\* runs with failure = false, then ~lock_guard, then the next group
BreakMutIgnore(w) ==
    /\ pc[w] = "check"
    /\ terminate_
    /\ Touch(w)
    /\ mutex_' = unlock_guard(w, mutex_)
    /\ pc' = [pc EXCEPT ![w] = "async"]
    /\ UNCHANGED <<cfgVars, unprocessedGraphs_, terminate_, firstPrinted_,
                   fos, osGood, files, drv, input, graphSpecPath, output,
                   failure, histVars, pureVars>>
BreakMutNoRelease(w) ==
    /\ pc[w] = "check"
    /\ terminate_
    /\ Touch(w)
    /\ terminate_' = Cleanup(FALSE)
    /\ abandoned' = abandoned \cup {Unit(w)}
    /\ input' = [input EXCEPT ![w] = @ + 1]
    /\ graphSpecPath' = [graphSpecPath EXCEPT ![w] = 0]
    /\ pc' = [pc EXCEPT ![w] = "for"]
    /\ UNCHANGED <<cfgVars, unprocessedGraphs_, firstPrinted_, mutex_, fos,
                   osGood, files, drv, output, failure, claimLog, succeeded,
                   failed, pureVars>>
Break(w) ==
    /\ pc[w] = "check"
    /\ terminate_
    /\ Touch(w)
    /\ terminate_' = Cleanup(FALSE)
    /\ abandoned' = abandoned \cup {Unit(w)}
    /\ mutex_' = mutex_ \ {w}
    /\ input' = [input EXCEPT ![w] = @ + 1]
    /\ graphSpecPath' = [graphSpecPath EXCEPT ![w] = 0]
    /\ pc' = [pc EXCEPT ![w] = "for"]
    /\ UNCHANGED <<cfgVars, unprocessedGraphs_, firstPrinted_, fos, osGood,
                   files, drv, output, failure, claimLog, succeeded, failed,
                   pureVars>>

\* lines 198, 203: terminate_ is clear: unlock_guard releases mutex_
UnlockMutEarly(w) ==
    /\ pc[w] = "check"
    /\ unguarded' = (unguarded \/ w \notin unlock_guard(w, mutex_))
    /\ ~terminate_
    /\ mutex_' = unlock_guard(w, mutex_)
    /\ pc' = [pc EXCEPT ![w] = "async"]
    /\ UNCHANGED <<cfgVars, unprocessedGraphs_, terminate_, firstPrinted_,
                   fos, osGood, files, drv, input, graphSpecPath, output,
                   failure, histVars, pureVars>>
Unlock(w) ==
    /\ pc[w] = "check"
    /\ Touch(w)
    /\ ~terminate_
    /\ mutex_' = unlock_guard(w, mutex_)
    /\ pc' = [pc EXCEPT ![w] = "async"]
    /\ UNCHANGED <<cfgVars, unprocessedGraphs_, terminate_, firstPrinted_,
                   fos, osGood, files, drv, input, graphSpecPath, output,
                   failure, histVars, pureVars>>

\* lines 204-209 and 125-150: parameters.load and processGraph succeed;
\* output holds the serialised result of the unit
ProcessGraph(w) ==
    /\ pc[w] = "async"
    /\ output' = [output EXCEPT ![w] = <<Unit(w)>>]
    /\ succeeded' = IF outputFolderPath_ THEN succeeded
                    ELSE succeeded \cup {Unit(w)}
    /\ pc' = [pc EXCEPT ![w] = IF outputFolderPath_ THEN "mkfile" ELSE "relock"]
    /\ UNCHANGED <<cfgVars, unprocessedGraphs_, terminate_, firstPrinted_,
                   mutex_, fos, osGood, files, drv, input, graphSpecPath,
                   failure, claimLog, failed, abandoned, unguarded, pureVars>>

\* lines 204-209: parameters.load or processGraph throws; output stays empty
ProcessGraphFail(w) ==
    /\ pc[w] = "async"
    /\ failure' = [failure EXCEPT ![w] = TRUE]
    /\ failed' = failed \cup {Unit(w)}
    /\ pc' = [pc EXCEPT ![w] = "relock"]
    /\ UNCHANGED <<cfgVars, unprocessedGraphs_, terminate_, firstPrinted_,
                   mutex_, fos, osGood, files, drv, input, graphSpecPath,
                   output, claimLog, succeeded, abandoned, unguarded, pureVars>>

\* lines 211-214 and 152-174: the per-unit output file is written
makeOutputFile(w) ==
    /\ pc[w] = "mkfile"
    /\ files' = files \cup {Unit(w)}
    /\ succeeded' = succeeded \cup {Unit(w)}
    /\ pc' = [pc EXCEPT ![w] = "relock"]
    /\ UNCHANGED <<cfgVars, unprocessedGraphs_, terminate_, firstPrinted_,
                   mutex_, fos, osGood, drv, input, graphSpecPath, output,
                   failure, claimLog, failed, abandoned, unguarded, pureVars>>

\* lines 161-164, 173 and 116-123: the per-unit file cannot be opened or
\* written; error() throws while output already holds the result
makeOutputFileFail(w) ==
    /\ pc[w] = "mkfile"
    /\ ErrorThrows
    /\ failure' = [failure EXCEPT ![w] = TRUE]
    /\ failed' = failed \cup {Unit(w)}
    /\ pc' = [pc EXCEPT ![w] = "relock"]
    /\ UNCHANGED <<cfgVars, unprocessedGraphs_, terminate_, firstPrinted_,
                   mutex_, fos, osGood, files, drv, input, graphSpecPath,
                   output, claimLog, succeeded, abandoned, unguarded, pureVars>>

\* line 215, first destructor: ~unlock_guard takes mutex_ again
RelockMutNoLock(w) ==
    /\ pc[w] = "relock"
    /\ pc' = [pc EXCEPT ![w] = "cleanup"]
    /\ UNCHANGED <<cfgVars, unprocessedGraphs_, terminate_, firstPrinted_,
                   mutex_, fos, osGood, files, drv, input, graphSpecPath,
                   output, failure, histVars, unguarded, pureVars>>
Relock(w) ==
    /\ pc[w] = "relock"
    /\ CanLock(mutex_)
    /\ mutex_' = mutex_ \cup {w}
    /\ pc' = [pc EXCEPT ![w] = "cleanup"]
    /\ UNCHANGED <<cfgVars, unprocessedGraphs_, terminate_, firstPrinted_,
                   fos, osGood, files, drv, input, graphSpecPath, output,
                   failure, histVars, unguarded, pureVars>>

\* lines 185 and 215: the cleanup lambda runs at the end of the block
RunCleanup(w) ==
    /\ pc[w] = "cleanup"
    /\ Touch(w)
    /\ terminate_' = Cleanup(failure[w])
    /\ failure' = [failure EXCEPT ![w] = FALSE]
    /\ pc' = [pc EXCEPT ![w] = AfterAsyncBlock(failure[w])]
    /\ UNCHANGED <<cfgVars, unprocessedGraphs_, firstPrinted_, mutex_, fos,
                   osGood, files, drv, input, graphSpecPath, output, histVars,
                   pureVars>>

\* line 217 false: no aggregated output
EmitSkip(w) ==
    /\ pc[w] = "emit"
    /\ ~outputFilePath_
    /\ graphSpecPath' = [graphSpecPath EXCEPT ![w] = 0]
    /\ output' = [output EXCEPT ![w] = <<>>]
    /\ pc' = [pc EXCEPT ![w] = "while"]
    /\ UNCHANGED <<cfgVars, unprocessedGraphs_, terminate_, firstPrinted_,
                   mutex_, fos, osGood, files, drv, input, failure, histVars,
                   unguarded, pureVars>>

\* lines 217-225 and 116-123: separator unless first, then the item
Emit(w) ==
    /\ pc[w] = "emit"
    /\ outputFilePath_
    /\ osGood
    /\ Touch(w)
    /\ fos' = fos \o (IF firstPrinted_ THEN <<SepTok>> ELSE <<>>)
                  \o Written(output[w])
    /\ firstPrinted_' = TRUE
    /\ graphSpecPath' = [graphSpecPath EXCEPT ![w] = 0]
    /\ output' = [output EXCEPT ![w] = <<>>]
    /\ pc' = [pc EXCEPT ![w] = "while"]
    /\ UNCHANGED <<cfgVars, unprocessedGraphs_, terminate_, mutex_, osGood,
                   files, drv, input, failure, histVars, pureVars>>

\* lines 217-223 and 118-122: the write of the item leaves the stream in an
\* error state; error() throws out of processGraphs, ~lock_guard unlocks
EmitFail(w) ==
    /\ pc[w] = "emit"
    /\ outputFilePath_
    /\ ErrorThrows
    /\ Touch(w)
    /\ fos' = fos \o (IF firstPrinted_ /\ osGood THEN <<SepTok>> ELSE <<>>)
    /\ osGood' = FALSE
    /\ mutex_' = mutex_ \ {w}
    /\ pc' = [pc EXCEPT ![w] = "thrown"]
    /\ graphSpecPath' = [graphSpecPath EXCEPT ![w] = 0]
    /\ output' = [output EXCEPT ![w] = <<>>]
    /\ UNCHANGED <<cfgVars, unprocessedGraphs_, terminate_, firstPrinted_,
                   files, drv, input, failure, histVars, pureVars>>

\* CPU_THREADS(parameters_.threads()).execute: the workers run processGraphs
Next ==
    \/ RunOpen
    \/ RunClose
    \/ \E w \in Workers : ForEnd(w)
    \/ \E w \in Workers : LockGuard(w)
    \/ \E w \in Workers : WhileEnd(w)
    \/ \E w \in Workers : Claim(w)
    \/ \E w \in Workers : OpenReaders(w)
    \/ \E w \in Workers : OpenReadersFail(w)
    \/ \E w \in Workers : Break(w)
    \/ \E w \in Workers : Unlock(w)
    \/ \E w \in Workers : ProcessGraph(w)
    \/ \E w \in Workers : ProcessGraphFail(w)
    \/ \E w \in Workers : makeOutputFile(w)
    \/ \E w \in Workers : makeOutputFileFail(w)
    \/ \E w \in Workers : Relock(w)
    \/ \E w \in Workers : RunCleanup(w)
    \/ \E w \in Workers : EmitSkip(w)
    \/ \E w \in Workers : Emit(w)
    \/ \E w \in Workers : EmitFail(w)

Spec == Init /\ [][Next]_vars

\* the pool runs some thread that can take a step, and every step of the
\* expensive stage (to success or to failure) is a step of Next
FairSpec == Init /\ [][Next]_vars /\ WF_vars(Next)

\* ------------------------------------------------- readfilters::BadAlign
\* a decoded GraphAlignment: one record per node alignment, with its query
\* length and the number of its clipped query bases
Segments == {sg \in [queryLength : 0..MaxSegLen, numClipped : 0..MaxSegLen] :
                sg.numClipped <= sg.queryLength}
RECURSIVE SeqsUpTo(_, _)
SeqsUpTo(S, n) ==
    IF n = 0 THEN {<<>>}
    ELSE LET shorter == SeqsUpTo(S, n - 1)
         IN  shorter \cup {Append(q, x) : q \in shorter, x \in S}
Mappings == SeqsUpTo(Segments, MaxSegs)
FracNums == (0 - 2)..MaxFracNum

\* GraphAlignment::queryLength()
RECURSIVE queryLength(_)
queryLength(mapping) ==
    IF mapping = <<>> THEN 0
    ELSE Head(mapping).queryLength + queryLength(Tail(mapping))

\* the loop of lines 337-341
RECURSIVE query_clipped(_)
query_clipped(mapping) ==
    IF mapping = <<>> THEN 0
    ELSE Head(mapping).numClipped + query_clipped(Tail(mapping))

\* round() of <cmath> on the value num / den (den > 0): nearest integer,
\* halfway cases away from zero
round(num, den) ==
    IF num >= 0 THEN (2 * num + den) \div (2 * den)
    ELSE 0 - ((2 * (0 - num) + den) \div (2 * den))

\* lines 334-345
filterReadMutLe(mapping, frac) ==
    LET query_aligned == queryLength(mapping) - query_clipped(mapping)
        is_bad == query_aligned <= round(frac * queryLength(mapping), FracDen)
    IN  <<is_bad, IF is_bad THEN "bad_align" ELSE "">>
filterRead(mapping, frac) ==
    LET query_aligned == queryLength(mapping) - query_clipped(mapping)
        is_bad == query_aligned < round(frac * queryLength(mapping), FracDen)
    IN  <<is_bad, IF is_bad THEN "bad_align" ELSE "">>

\* only the assert of line 331 guards the constructor
CtorAccepts(g, frac) == g \/ ndebug

\* lines 327-332: the members are set, the assert passes or is compiled out
BadAlignCtor(g, frac) ==
    /\ fState = "none"
    /\ CtorAccepts(g, frac)
    /\ graph_' = g
    /\ bad_align_frac_' = frac
    /\ fState' = "constructed"
    /\ UNCHANGED <<wfVars, alVars, fcVars, ndebug, read, result>>

\* line 331: the assert fires on a null graph
BadAlignAssert(g, frac) ==
    /\ fState = "none"
    /\ ~CtorAccepts(g, frac)
    /\ graph_' = g
    /\ bad_align_frac_' = frac
    /\ fState' = "assert_failed"
    /\ UNCHANGED <<wfVars, alVars, fcVars, ndebug, read, result>>

\* lines 334-345 on a filter with a graph.  filterRead changes nothing of the
\* filter, so one call per behaviour stands for every call
FilterRead ==
    /\ fState = "constructed"
    /\ graph_
    /\ result = <<>>
    /\ \E mapping \in Mappings :
          /\ read' = mapping
          /\ result' = filterRead(mapping, bad_align_frac_)
    /\ UNCHANGED <<wfVars, alVars, fcVars, fState, graph_, bad_align_frac_, ndebug>>

\* line 336 with graph_ == nullptr (assert compiled out): the null graph is
\* dereferenced while decoding, any outcome is possible
FilterReadNull ==
    /\ fState = "constructed"
    /\ ~graph_
    /\ result = <<>>
    /\ \E mapping \in Mappings : read' = mapping
    /\ \E r \in {<<TRUE, "bad_align">>, <<FALSE, "">>} : result' = r
    /\ fState' \in {"constructed", "crashed"}
    /\ UNCHANGED <<wfVars, alVars, fcVars, graph_, bad_align_frac_, ndebug>>

InitBadAlign ==
    /\ nGroups = 0
    /\ nPaths = 0
    /\ nThreads = 1
    /\ outputFilePath_ = FALSE
    /\ outputFolderPath_ = FALSE
    /\ WorkflowStart
    /\ NoFilter
    /\ ndebug \in BOOLEAN
    /\ NoAligner
    /\ NoChain

NextBadAlign ==
    \/ \E g \in BOOLEAN, frac \in FracNums : BadAlignCtor(g, frac)
    \/ \E g \in BOOLEAN, frac \in FracNums : BadAlignAssert(g, frac)
    \/ FilterRead
    \/ FilterReadNull

SpecBadAlign == InitBadAlign /\ [][NextBadAlign]_vars

\* ======================================================== grm::KlibAligner
\* candidates an orientation can produce: unmapped, or the best-scoring path
Candidates(strand) ==
    {NoCand} \cup
    {[mapped |-> TRUE, score |-> sc, path |-> p, strand |-> strand] :
        sc \in 1..MaxScore, p \in 1..MaxAlnPaths}

\* an empty or malformed sequence clears no alignment threshold
OrientationCandidates(seqOk, strand) ==
    IF seqOk THEN Candidates(strand) ELSE {NoCand}

\* "the alignment which is unique, or with the better score, or default to
\* the forward strand"
SelectMutTieReverse(f, r) ==
    IF f.mapped /\ r.mapped
    THEN IF r.score >= f.score THEN r ELSE f
    ELSE IF r.mapped THEN r ELSE f
Select(f, r) ==
    IF f.mapped /\ r.mapped
    THEN IF r.score > f.score THEN r ELSE f
    ELSE IF r.mapped THEN r ELSE f

\* setGraph: binds the target set; may be called again between units
setGraph ==
    /\ configured' = TRUE
    /\ UNCHANGED <<wfVars, baVars, fcVars,
                   attempted_, mapped_, calls, fwdCand, revCand, graphAln>>

\* alignRead on a read whose graph_* fields are unset
alignReadMutCountAll ==
    /\ configured
    /\ calls < MaxCalls
    /\ \E seqOk \in BOOLEAN :
       \E f \in OrientationCandidates(seqOk, "fwd") :
       \E r \in OrientationCandidates(seqOk, "rev") :
          /\ fwdCand' = f
          /\ revCand' = r
          /\ attempted_' = attempted_ + 1
          /\ mapped_' = mapped_ + 1
          /\ graphAln' = IF Select(f, r).mapped THEN <<Select(f, r)>> ELSE <<>>
    /\ calls' = calls + 1
    /\ UNCHANGED <<wfVars, baVars, fcVars, configured>>
alignRead ==
    /\ configured
    /\ calls < MaxCalls
    /\ \E seqOk \in BOOLEAN :
       \E f \in OrientationCandidates(seqOk, "fwd") :
       \E r \in OrientationCandidates(seqOk, "rev") :
          /\ fwdCand' = f
          /\ revCand' = r
          /\ attempted_' = attempted_ + 1
          /\ mapped_' = IF Select(f, r).mapped THEN mapped_ + 1 ELSE mapped_
          /\ graphAln' = IF Select(f, r).mapped THEN <<Select(f, r)>> ELSE <<>>
    /\ calls' = calls + 1
    /\ UNCHANGED <<wfVars, baVars, fcVars, configured>>

InitAligner ==
    /\ nGroups = 0
    /\ nPaths = 0
    /\ nThreads = 1
    /\ outputFilePath_ = FALSE
    /\ outputFolderPath_ = FALSE
    /\ WorkflowStart
    /\ NoFilter
    /\ ndebug = FALSE
    /\ NoAligner
    /\ NoChain

NextAligner ==
    \/ setGraph
    \/ alignRead

SpecAligner == InitAligner /\ [][NextAligner]_vars

\* ============================================================ filter chain
\* the chains tried: per filter, whether it excludes the read at hand
Chains == UNION {[1..n -> BOOLEAN] : n \in 0..MaxFilters}

\* one filter of the chain is applied to the read; an exclusion ends the
\* chain and tags the read with that filter's reason
applyFilterMutNoShortCircuit ==
    /\ fcNext <= Len(chain)
    /\ fcTag # <<"kept">>
    /\ fcInvoked' = fcInvoked \cup {fcNext}
    /\ fcTag' = IF chain[fcNext] THEN <<"excluded", fcNext>> ELSE fcTag
    /\ fcNext' = fcNext + 1
    /\ UNCHANGED <<wfVars, baVars, alVars, chain>>
applyFilter ==
    /\ fcTag = <<>>
    /\ fcNext <= Len(chain)
    /\ fcInvoked' = fcInvoked \cup {fcNext}
    /\ fcTag' = IF chain[fcNext] THEN <<"excluded", fcNext>> ELSE fcTag
    /\ fcNext' = IF chain[fcNext] THEN fcNext ELSE fcNext + 1
    /\ UNCHANGED <<wfVars, baVars, alVars, chain>>

\* every filter passed the read
tagKept ==
    /\ fcTag = <<>>
    /\ fcNext > Len(chain)
    /\ fcTag' = <<"kept">>
    /\ UNCHANGED <<wfVars, baVars, alVars, chain, fcNext, fcInvoked>>

InitFilterChain ==
    /\ nGroups = 0
    /\ nPaths = 0
    /\ nThreads = 1
    /\ outputFilePath_ = FALSE
    /\ outputFolderPath_ = FALSE
    /\ WorkflowStart
    /\ NoFilter
    /\ ndebug = FALSE
    /\ NoAligner
    /\ chain \in Chains
    /\ fcNext = 1
    /\ fcInvoked = {}
    /\ fcTag = <<>>

NextFilterChain ==
    \/ applyFilter
    \/ tagKept

SpecFilterChain == InitFilterChain /\ [][NextFilterChain]_vars

\* =================================================== properties: Workflow
Units == (1..nGroups) \X (1..nPaths)
Returned == drv = "returned"
NoFailure == failed = {} /\ thrown = {} /\ osGood
CountIn(s, u) == Cardinality({i \in DOMAIN s : s[i] = Item(u)})
Count(u) == CountIn(fos, u)
Claimed(u) == u[2] < unprocessedGraphs_[u[1]]
Pos(u) == CHOOSE i \in DOMAIN fos : fos[i] = Item(u)

\* items at the odd places, separators at the even places
Alternates(b) ==
    \/ b = <<>>
    \/ /\ Len(b) % 2 = 1
       /\ \A i \in DOMAIN b : IF i % 2 = 1 THEN IsItem(b[i]) ELSE b[i] = SepTok

\* nothing, one bare item, or a bracketed, comma separated list of items
WellFormed(s) ==
    \/ Len(s) <= 1 /\ Alternates(s)
    \/ /\ Len(s) >= 2
       /\ s[1] = OpenTok
       /\ s[Len(s)] = CloseTok
       /\ Alternates(SubSeq(s, 2, Len(s) - 1))

\* every separator stands between two items
SeparatorsPlaced(s) ==
    \A i \in DOMAIN s :
        s[i] = SepTok =>
            /\ 1 < i /\ i < Len(s)
            /\ IsItem(s[i - 1])
            /\ IsItem(s[i + 1])

\* C1: in every group the cursor hands out the paths in list order, each path
\* is claimed exactly once (no path skipped, none claimed twice); a run
\* without failures claims every path of every group, and every unit whose
\* expensive stage succeeded is exactly once in the aggregated output.
C1_ClaimedOnceEmittedOnce ==
    /\ \A g \in 1..nGroups :
          /\ Len(claimLog[g]) = unprocessedGraphs_[g] - 1
          /\ unprocessedGraphs_[g] <= End
          /\ \A i \in DOMAIN claimLog[g] : claimLog[g][i] = i
    /\ \A u \in Units : Count(u) <= 1
    /\ (Returned /\ NoFailure) =>
          \A g \in 1..nGroups : unprocessedGraphs_[g] = End
    /\ (Returned /\ NoFailure /\ outputFilePath_) =>
          /\ succeeded = Units
          /\ \A u \in Units : Count(u) = 1

C1_Witness ==
    /\ Returned /\ NoFailure /\ outputFilePath_
    /\ nThreads >= 2 /\ nPaths >= 2
    /\ \A u \in Units : Count(u) = 1
    /\ \E g \in 1..nGroups : Pos(<<g, 2>>) < Pos(<<g, 1>>)

\* C2: when run has returned from a run without failures, the aggregated
\* stream is well-formed: brackets frame the items whenever more than one
\* item was written, and items are separated by exactly one separator.
C2_OutputWellFormed ==
    (Returned /\ NoFailure) => WellFormed(fos)

\* C3 as stated: if exactly one unit fails, every other unit still completes
\* and is present in the output, and the run reports failure.
C3_AllOtherUnitsComplete ==
    (Returned /\ Cardinality(failed) = 1 /\ thrown = {} /\ outputFilePath_) =>
        /\ failureIndication
        /\ \A u \in Units \ failed : Count(u) = 1

\* C3 amended: if exactly one unit fails, the run reports failure; every
\* other unit whose expensive stage was entered completes and is exactly once
\* in the output; every remaining unit was abandoned at the terminate_ check
\* or never claimed, and is not in the output.
C3_StartedUnitsComplete ==
    (Returned /\ Cardinality(failed) = 1 /\ thrown = {} /\ outputFilePath_) =>
        /\ failureIndication
        /\ \A u \in succeeded : Count(u) = 1
        /\ \A u \in Units \ (succeeded \cup failed) :
              /\ u \in abandoned \/ ~Claimed(u)
              /\ Count(u) = 0

C3_Witness ==
    /\ Returned /\ Cardinality(failed) = 1 /\ thrown = {} /\ outputFilePath_
    /\ \E u \in succeeded : Count(u) = 1
    /\ abandoned # {}

\* C4: terminate_ is never cleared; while it is set no worker enters the
\* expensive stage; a worker that finds it set at the check drops the unit it
\* has just claimed, which is never processed nor emitted; a worker inside the
\* expensive stage goes on to the end of its block and to its emission.
C4_SoftTerminate ==
    [][ /\ terminate_ => terminate_'
        /\ \A u \in abandoned' :
              u \notin succeeded' /\ u \notin files' /\ CountIn(fos', u) = 0
        /\ \A w \in Workers :
              /\ (terminate_ /\ pc[w] # "async") => pc'[w] # "async"
              /\ (terminate_ /\ pc[w] = "check" /\ pc'[w] # "check") =>
                    /\ pc'[w] = "for"
                    /\ Unit(w) \in abandoned'
                    /\ fos' = fos
              /\ pc[w] \in {"async", "mkfile"} =>
                    pc'[w] \in {"async", "mkfile", "relock"}
              /\ pc[w] = "relock" => pc'[w] \in {"relock", "cleanup"}
              /\ pc[w] = "cleanup" => pc'[w] \in {"cleanup", "emit"}
              /\ (pc[w] = "emit" /\ pc'[w] = "while" /\ outputFilePath_
                    /\ output[w] # <<>>) => CountIn(fos', output[w][1]) = 1
      ]_vars

C4_Witness ==
    /\ terminate_
    /\ abandoned # {}
    /\ \E w \in Workers :
          /\ pc[w] = "emit"
          /\ output[w] # <<>>
          /\ Unit(w) \in succeeded

C7_SharedStateUnderLock ==
    /\ ~unguarded
    /\ Cardinality(mutex_) <= 1
    /\ \A w \in Workers :
          pc[w] \in {"while", "readers", "check", "cleanup", "emit"}
              => w \in mutex_

C7_Witness ==
    \E w, v \in Workers :
        /\ w # v
        /\ pc[w] = "emit" /\ w \in mutex_
        /\ firstPrinted_
        /\ pc[v] = "async"

\* C8: every I/O error of a unit has set terminate_ once it is handled: a
\* failure of the block after its cleanup, and a failed write of the item to
\* the aggregated stream.
C8_IoErrorSetsTerminate ==
    /\ thrown # {} => terminate_
    /\ \A u \in failed :
          (\A w \in Workers : ~(failure[w] /\ Unit(w) = u)) => terminate_

\* =================================================== properties: BadAlign
\* the integer nearest to num / den, halfway cases away from zero
Nearest(num, den) ==
    LET bound == (IF num >= 0 THEN num ELSE 0 - num) + 1
    IN  CHOOSE n \in (0 - bound)..bound :
            IF num >= 0
            THEN (2 * n - 1) * den <= 2 * num /\ 2 * num < (2 * n + 1) * den
            ELSE (2 * n - 1) * den < 2 * num /\ 2 * num <= (2 * n + 1) * den

AlignedLength == queryLength(read) - query_clipped(read)
ThresholdCount == Nearest(bad_align_frac_ * queryLength(read), FracDen)
Filtered == fState = "constructed" /\ graph_ /\ result # <<>>

\* C9: filterRead returns (true, "bad_align") iff the aligned length (query
\* length minus the clipped bases of all segments) is less than
\* round(threshold * query length), and (false, "") otherwise; at threshold
\* 0.8 and query length 5 aligned length 4 passes and 3 is excluded.
C9_BadAlignRule ==
    Filtered =>
        /\ result = <<TRUE, "bad_align">> <=> AlignedLength < ThresholdCount
        /\ result = <<FALSE, "">> <=> ~(AlignedLength < ThresholdCount)
        /\ (10 * bad_align_frac_ = 8 * FracDen /\ queryLength(read) = 5) =>
              /\ AlignedLength = 4 => result = <<FALSE, "">>
              /\ AlignedLength = 3 => result = <<TRUE, "bad_align">>

C9_Witness ==
    /\ Filtered
    /\ Len(read) = 2
    /\ query_clipped(read) > 0
    /\ AlignedLength + 1 = ThresholdCount
    /\ result = <<TRUE, "bad_align">>

\* C10: a constructed filter has a non-null graph and a threshold in (0, 1].
C10_CtorValidates ==
    fState = "constructed" =>
        /\ graph_
        /\ 0 < bad_align_frac_
        /\ bad_align_frac_ <= FracDen

\* ================================================ properties: KlibAligner
Aligned == calls > 0
OneMapped == fwdCand.mapped # revCand.mapped
BothMapped == fwdCand.mapped /\ revCand.mapped
NoneMapped == ~fwdCand.mapped /\ ~revCand.mapped

\* C11: after alignRead, when exactly one orientation produced a mapped
\* candidate the read carries that candidate unchanged; when both did, it
\* carries the one with the strictly higher score, and the forward one when
\* the scores are equal.
C11_SelectionPolicy ==
    Aligned =>
        /\ (OneMapped /\ fwdCand.mapped) => graphAln = <<fwdCand>>
        /\ (OneMapped /\ revCand.mapped) => graphAln = <<revCand>>
        /\ (BothMapped /\ fwdCand.score > revCand.score) => graphAln = <<fwdCand>>
        /\ (BothMapped /\ revCand.score > fwdCand.score) => graphAln = <<revCand>>
        /\ (BothMapped /\ fwdCand.score = revCand.score) => graphAln = <<fwdCand>>

C11_Witness ==
    /\ Aligned
    /\ BothMapped
    /\ fwdCand.score = revCand.score
    /\ fwdCand.path # revCand.path
    /\ graphAln = <<fwdCand>>

\* C12: an alignRead call that finds no mapped candidate in either
\* orientation leaves the read's fields unset, adds one to attempted() and
\* leaves mapped() unchanged; neither counter ever decreases, and
\* mapped() <= attempted() = number of alignRead calls so far.
C12_Counters ==
    [][/\ attempted_' >= attempted_
       /\ mapped_' >= mapped_
       /\ mapped_' <= attempted_'
       /\ attempted_' = calls'
       /\ calls' # calls =>
             /\ attempted_' = attempted_ + 1
             /\ NoneMapped' => (mapped_' = mapped_ /\ graphAln' = <<>>)
             /\ ~NoneMapped' => (mapped_' = mapped_ + 1 /\ graphAln' # <<>>)]_vars

C12_Witness ==
    /\ calls >= 2
    /\ NoneMapped
    /\ graphAln = <<>>
    /\ mapped_ >= 1
    /\ mapped_ < attempted_

\* =============================================== properties: filter chain
\* C13: the filters are applied in their order and the chain stops at the
\* first filter that excludes the read: the read is tagged with that
\* filter's reason, no later filter is invoked, and a read that passes every
\* filter is tagged "kept".
C13_ShortCircuit ==
    /\ \E n \in 0..Len(chain) : fcInvoked = 1..n
    /\ \A k \in DOMAIN chain :
          fcTag = <<"excluded", k>> =>
              /\ chain[k]
              /\ \A j \in 1..(k - 1) : ~chain[j]
              /\ fcInvoked = 1..k
    /\ fcTag = <<"kept">> =>
          /\ \A k \in DOMAIN chain : ~chain[k]
          /\ fcInvoked = DOMAIN chain
    /\ fcTag = <<>> => \A k \in fcInvoked : ~chain[k]

C13_Witness ==
    /\ Len(chain) >= 3
    /\ \E k \in 2..(Len(chain) - 1) :
          /\ fcTag = <<"excluded", k>>
          /\ chain[Len(chain)]
          /\ fcInvoked = 1..k

\* ========================================= properties: Workflow, continued
\* C14: a worker writes the per-unit output file only while it holds the
\* mutex, so no two workers are writing per-unit files at the same time.
C14_FileWriteUnderLock ==
    /\ \A w \in Workers : pc[w] = "mkfile" => w \in mutex_
    /\ Cardinality({w \in Workers : pc[w] = "mkfile"}) <= 1

HasToken(t) == \E i \in DOMAIN fos : fos[i] = t

\* C15: run writes the opening token exactly when an aggregated output is
\* configured and there is more than one unit (groups x paths), and the
\* closing token exactly when it wrote the opening one.
C15_FramedIffSeveralUnits ==
    (Returned /\ thrown = {} /\ osGood) =>
        /\ HasToken(OpenTok) <=> (outputFilePath_ /\ nGroups * nPaths > 1)
        /\ HasToken(CloseTok) <=> HasToken(OpenTok)

Separators == Cardinality({i \in DOMAIN fos : fos[i] = SepTok})
Items == Cardinality({i \in DOMAIN fos : IsItem(fos[i])})

Unlocked == {"async", "mkfile", "relock"}
Locked == {"while", "readers", "check", "cleanup", "emit"}

\* C17: a worker does not hold the mutex during the expensive stage and
\* holds it at every other point of the claim loop; the mutex is re-acquired
\* (from free) on the way from the expensive stage to the cleanup; a worker
\* that leaves the loop body, normally, by the break or by a throw, holds the
\* mutex exactly once and releases it; and the mutex only changes by a
\* worker locking it when it is free or by its holder unlocking it.
C17_LockDiscipline ==
    [][\A w \in Workers :
          /\ pc'[w] \in Unlocked => w \notin mutex_'
          /\ pc'[w] \in Locked => mutex_' = {w}
          /\ (pc[w] = "relock" /\ pc'[w] = "cleanup") =>
                (mutex_ = {} /\ mutex_' = {w})
          /\ (pc[w] \in Locked /\ pc'[w] \in {"for", "thrown"}) =>
                (mutex_ = {w} /\ mutex_' = {})
          /\ (w \in mutex_' /\ w \notin mutex_) =>
                (mutex_ = {} /\ pc[w] \in {"for", "relock"})
          /\ (w \in mutex_ /\ w \notin mutex_') =>
                (mutex_' = {} /\ pc[w] \in Locked /\ pc'[w] # pc[w])]_vars

C17_Witness ==
    \E w, v \in Workers :
        /\ w # v
        /\ pc[w] = "async"
        /\ pc[v] = "async"
        /\ mutex_ = {}
        /\ Unit(w) # Unit(v)

C20_CursorWithinList ==
    /\ \A g \in 1..nGroups :
          /\ unprocessedGraphs_[g] \in 1..End
          /\ Len(claimLog[g]) <= nPaths
          /\ \A i \in DOMAIN claimLog[g] : claimLog[g][i] \in 1..nPaths
    /\ \A w \in Workers :
          /\ graphSpecPath[w] \in 0..nPaths
          /\ pc[w] = "while" => mutex_ = {w}

C20_Witness ==
    /\ nThreads > nPaths
    /\ nPaths >= 1
    /\ \E w, v \in Workers :
          /\ w # v
          /\ pc[w] = "while"
          /\ input[w] = input[v]
          /\ unprocessedGraphs_[input[w]] = End
          /\ Len(claimLog[input[w]]) = nPaths
          /\ pc[v] = "async"

====
